---- MODULE Spec2Model ----
(***************************************************************************)
(* Model of backend/api_linux.py: a FastAPI gateway that turns an uploaded *)
(* image into a GLB artifact through one process-wide TRELLIS pipeline.    *)
(*                                                                         *)
(* Module start-up (lines 20-35) fixes `device` and `pipeline`.  Each POST *)
(* /convert request is a coroutine on the event loop (convert_image) that  *)
(* offloads Image.open and process_image_to_glb_bytes to the thread pool   *)
(* with run_in_threadpool.  GET / is the synchronous root() handler.       *)
(* Strings that the code computes on (file names) are sequences of         *)
(* one-character strings.                                                  *)
(***************************************************************************)
EXTENDS Integers, Sequences, FiniteSets, TLC

\* ---------------------------------------------------------------- bounds
NumRequests == 3
PoolSize == 2
MaxRootCalls == 1
MaxNameLen == 3

Requests == 1..NumRequests

\* ------------------------------------------------------------- constants
None == "None"
StatusRunning == "Backend is running!"
MsgNotLoaded == "Model is not loaded."
MsgDecode == "cannot identify image file"
MsgRun == "pipeline.run raised"
MsgExport == "export raised"
GlbBytes == "glb_bytes"
MediaGlb == "model/gltf-binary"

VARIABLES
    cudaAvailable,  \* torch.cuda.is_available()
    device,         \* module global `device`
    pipeline,       \* module global `pipeline`: "loaded" or None
    pc,             \* per request: position of its coroutine / worker thread
    filename,       \* per request: file.filename as supplied by the client
    upload,         \* per request: the uploaded bytes, "image" or "garbage"
    base_name,      \* per request: local base_name of convert_image
    image,          \* per request: local image of convert_image
    outputs,        \* per request: the job's frame still references `outputs`
    glb_bytes,      \* per request: local glb_bytes of the job
    exc,            \* per request: the exception in flight / caught as e
    jobCalls,       \* per request: calls of process_image_to_glb_bytes
    runCalls,       \* per request: calls of pipeline.run
    reclaimCalls,   \* per request: calls of torch.cuda.empty_cache by its job
    reclaimCount,   \* process-wide count of torch.cuda.empty_cache calls
    responses,      \* per request: the responses sent, in order
    rootCalls,      \* number of GET / handled
    rootResponse,   \* body of the last GET / response
    rootPending,    \* GET / requests accepted and waiting for a worker thread
    abandoned       \* per request: the client has given up on the response

vars == <<cudaAvailable, device, pipeline, pc, filename, upload, base_name,
          image, outputs, glb_bytes, exc, jobCalls, runCalls, reclaimCalls,
          reclaimCount, responses, rootCalls, rootResponse, rootPending,
          abandoned>>

\* ------------------------------------------------------------ file names
Chars == {"a", ".", "/", "<", " "}

RECURSIVE NamesUpTo(_)
NamesUpTo(n) ==
    IF n = 0 THEN {<<>>}
    ELSE LET shorter == NamesUpTo(n - 1)
         IN shorter \cup {Append(s, c) : s \in {t \in shorter : Len(t) = n - 1}, c \in Chars}

\* every file name a client may send, up to the bound
AllNames == NamesUpTo(MaxNameLen)

\* the file name every client sends when several requests run concurrently
SampleNames == {<<"a", ".", "a">>}

Digits19 == {"1", "2", "3", "4", "5", "6", "7", "8", "9"}

\* sanitize_filename.sanitize: characters it drops
Blacklist == {"\\", "/", ":", "*", "?", "\"", "<", ">", "|"}

\* sanitize_filename.sanitize: names reserved on Windows
Reserved ==
    {<<"C", "O", "N">>, <<"P", "R", "N">>, <<"A", "U", "X">>, <<"N", "U", "L">>}
    \cup {<<"C", "O", "M", d>> : d \in Digits19}
    \cup {<<"L", "P", "T", d>> : d \in Digits19}

RECURSIVE RStrip(_, _)
\* str.rstrip(chars)
RStrip(s, cs) ==
    IF Len(s) > 0 /\ s[Len(s)] \in cs THEN RStrip(SubSeq(s, 1, Len(s) - 1), cs) ELSE s

RECURSIVE LStrip(_, _)
\* str.lstrip(chars)
LStrip(s, cs) ==
    IF Len(s) > 0 /\ s[1] \in cs THEN LStrip(Tail(s), cs) ELSE s

\* str.strip()
Strip(s) == LStrip(RStrip(s, {" "}), {" "})

\* sanitize(filename) of the sanitize_filename package, for names of at most
\* 255 characters over printable ASCII (NFKD normalisation leaves them alone)
sanitize(name) ==
    LET kept == SelectSeq(name, LAMBDA c : c \notin Blacklist)
        stripped == Strip(RStrip(kept, {".", " "}))
        dotted == IF \A i \in 1..Len(stripped) : stripped[i] = "."
                  THEN <<"_", "_">> \o stripped ELSE stripped
        unreserved == IF dotted \in Reserved THEN <<"_", "_">> \o dotted ELSE dotted
    IN IF Len(unreserved) = 0 THEN <<"_", "_">> ELSE unreserved

\* str.rfind of a one-character needle, 1-based; 0 when absent
RFind(s, cs) ==
    LET hits == {i \in 1..Len(s) : s[i] \in cs}
    IN IF hits = {} THEN 0 ELSE CHOOSE i \in hits : \A j \in hits : j <= i

\* os.path.splitext(p)[0] (posixpath: sep "/", extsep ".")
SplitextRoot(p) ==
    LET sepIndex == RFind(p, {"/"})
        dotIndex == RFind(p, {"."})
    IN IF dotIndex > sepIndex
          /\ \E i \in (sepIndex + 1)..(dotIndex - 1) : p[i] # "."
       THEN SubSeq(p, 1, dotIndex - 1)
       ELSE p

OutputName == <<"o", "u", "t", "p", "u", "t">>
GlbExt == <<".", "g", "l", "b">>

\* lines 86-89 of convert_image
BaseName(original_name) ==
    LET safe_name == sanitize(original_name)
        root_part == SplitextRoot(safe_name)
    IN IF root_part = <<>> THEN OutputName ELSE root_part

\* BaseName tabulated over the file names clients send
BaseNameOf == [n \in AllNames \cup SampleNames |-> BaseName(n)]

\* the file name of the Content-Disposition header, line 102
DownloadName(base) == base \o GlbExt

\* --------------------------------------------------------------- startup
\* lines 20-25
StartupDevice(cuda) == IF cuda THEN "cuda" ELSE "cpu"

\* lines 27-35: from_pretrained / pipeline.to either succeed or raise
StartupPipeline(loadOk) == IF loadOk THEN "loaded" ELSE None

Init ==
    /\ cudaAvailable \in BOOLEAN
    /\ device = StartupDevice(cudaAvailable)
    /\ \E loadOk \in BOOLEAN : pipeline = StartupPipeline(loadOk)
    /\ pc = [r \in Requests |-> "new"]
    /\ filename = [r \in Requests |-> <<>>]
    /\ upload = [r \in Requests |-> None]
    /\ base_name = [r \in Requests |-> <<>>]
    /\ image = [r \in Requests |-> None]
    /\ outputs = [r \in Requests |-> FALSE]
    /\ glb_bytes = [r \in Requests |-> None]
    /\ exc = [r \in Requests |-> None]
    /\ jobCalls = [r \in Requests |-> 0]
    /\ runCalls = [r \in Requests |-> 0]
    /\ reclaimCalls = [r \in Requests |-> 0]
    /\ reclaimCount = 0
    /\ responses = [r \in Requests |-> <<>>]
    /\ rootCalls = 0
    /\ rootResponse = [status |-> None, device |-> None]
    /\ rootPending = 0
    /\ abandoned = [r \in Requests |-> FALSE]

\* ------------------------------------------------------------ thread pool
\* a pool whose worker slot is not handed back when the call ends
OnWorkerLeaked == {"decoding", "run", "export", "cleanup", "returned", "except", "done"}

\* worker threads occupied by a run_in_threadpool call
OnWorker == {"decoding", "run", "export", "cleanup"}
BusyWorkers == Cardinality({r \in Requests : pc[r] \in OnWorker})
WorkerFree == BusyWorkers < PoolSize

\* ------------------------------------------------------------- responses
\* line 48
RootBody == [status |-> StatusRunning, device |-> device]

\* lines 99-103
OkResponse(r) ==
    [status |-> 200, content |-> glb_bytes[r], media_type |-> MediaGlb,
     filename |-> DownloadName(base_name[r]), error |-> None]

\* a handler that answers a failure with whatever bytes the job left behind
ErrorResponsePartial(r) ==
    [status |-> 200, content |-> glb_bytes[r], media_type |-> MediaGlb,
     filename |-> DownloadName(base_name[r]), error |-> None]

\* line 106
ErrorResponse(r) ==
    [status |-> 500, content |-> None, media_type |-> "application/json",
     filename |-> None, error |-> exc[r]]

\* a job that does not test the handle before using it
ModelNotLoadedUnchecked == FALSE

\* line 52
ModelNotLoaded == pipeline = None

\* a cleanup that empties the cache without asking for CUDA
ReclaimUnconditional == TRUE

\* line 75
ReclaimEnabled == cudaAvailable

\* --------------------------------------------------------------- actions
\* a status handler that also empties the accelerator cache
RootEmptiesCache ==
    /\ rootPending > 0
    /\ WorkerFree
    /\ rootPending' = rootPending - 1
    /\ rootCalls' = rootCalls + 1
    /\ rootResponse' = RootBody
    /\ reclaimCount' = reclaimCount + 1
    /\ UNCHANGED <<cudaAvailable, device, pipeline, pc, filename, upload,
                   base_name, image, outputs, glb_bytes, exc, jobCalls,
                   runCalls, reclaimCalls, responses, abandoned>>

\* GET / arrives: root is a plain def, so the event loop hands it to the
\* thread pool (lines 46-47; the comment at line 81 relies on the same rule)
AcceptRoot ==
    /\ rootCalls + rootPending < MaxRootCalls
    /\ rootPending' = rootPending + 1
    /\ UNCHANGED <<cudaAvailable, device, pipeline, pc, filename, upload,
                   base_name, image, outputs, glb_bytes, exc, jobCalls,
                   runCalls, reclaimCalls, reclaimCount, responses, rootCalls,
                   rootResponse, abandoned>>

\* a worker thread runs root() and the response is sent (lines 46-48)
Root ==
    /\ rootPending > 0
    /\ WorkerFree
    /\ rootPending' = rootPending - 1
    /\ rootCalls' = rootCalls + 1
    /\ rootResponse' = RootBody
    /\ UNCHANGED <<cudaAvailable, device, pipeline, pc, filename, upload,
                   base_name, image, outputs, glb_bytes, exc, jobCalls,
                   runCalls, reclaimCalls, reclaimCount, responses, abandoned>>

\* a handler that decodes on the event loop: nothing is accepted while the
\* pool is busy
AcceptWhenWorkerFree(r, name, bytes) ==
    /\ pc[r] = "new"
    /\ WorkerFree
    /\ filename' = [filename EXCEPT ![r] = name]
    /\ upload' = [upload EXCEPT ![r] = bytes]
    /\ base_name' = [base_name EXCEPT ![r] = BaseNameOf[name]]
    /\ pc' = [pc EXCEPT ![r] = "decode_wait"]
    /\ UNCHANGED <<cudaAvailable, device, pipeline, image, outputs, glb_bytes,
                   exc, jobCalls, runCalls, reclaimCalls, reclaimCount,
                   responses, rootCalls, rootResponse,
                   rootPending, abandoned>>

\* POST /convert arrives: lines 86-91, then Image.open is handed to the pool
Accept(r, name, bytes) ==
    /\ pc[r] = "new"
    /\ filename' = [filename EXCEPT ![r] = name]
    /\ upload' = [upload EXCEPT ![r] = bytes]
    /\ base_name' = [base_name EXCEPT ![r] = BaseNameOf[name]]
    /\ pc' = [pc EXCEPT ![r] = "decode_wait"]
    /\ UNCHANGED <<cudaAvailable, device, pipeline, image, outputs, glb_bytes,
                   exc, jobCalls, runCalls, reclaimCalls, reclaimCount,
                   responses, rootCalls, rootResponse,
                   rootPending, abandoned>>

\* a pool that runs nothing else while a job is inside pipeline.run
StartDecodeOutsideRun(r) ==
    /\ pc[r] = "decode_wait"
    /\ WorkerFree
    /\ \A q \in Requests : pc[q] # "run"
    /\ pc' = [pc EXCEPT ![r] = "decoding"]
    /\ UNCHANGED <<cudaAvailable, device, pipeline, filename, upload, base_name,
                   image, outputs, glb_bytes, exc, jobCalls, runCalls,
                   reclaimCalls, reclaimCount, responses, rootCalls, rootResponse,
                   rootPending, abandoned>>

\* a worker thread picks up Image.open (line 94)
StartDecode(r) ==
    /\ pc[r] = "decode_wait"
    /\ WorkerFree
    /\ pc' = [pc EXCEPT ![r] = "decoding"]
    /\ UNCHANGED <<cudaAvailable, device, pipeline, filename, upload, base_name,
                   image, outputs, glb_bytes, exc, jobCalls, runCalls,
                   reclaimCalls, reclaimCount, responses, rootCalls, rootResponse,
                   rootPending, abandoned>>

\* a handler that answers as soon as the image is decoded, and submits the
\* job without awaiting it
DecodeReturnAnswersEarly(r) ==
    /\ pc[r] = "decoding"
    /\ upload[r] = "image"
    /\ image' = [image EXCEPT ![r] = "image"]
    /\ responses' = [responses EXCEPT ![r] = Append(@, OkResponse(r))]
    /\ pc' = [pc EXCEPT ![r] = "job_wait"]
    /\ UNCHANGED <<cudaAvailable, device, pipeline, filename, upload, base_name,
                   outputs, glb_bytes, exc, jobCalls, runCalls, reclaimCalls,
                   reclaimCount, rootCalls, rootResponse,
                   rootPending, abandoned>>

\* Image.open returns; the coroutine resumes and submits the job (lines 94-97)
DecodeReturn(r) ==
    /\ pc[r] = "decoding"
    /\ upload[r] = "image"
    /\ image' = [image EXCEPT ![r] = "image"]
    /\ pc' = [pc EXCEPT ![r] = "job_wait"]
    /\ UNCHANGED <<cudaAvailable, device, pipeline, filename, upload, base_name,
                   outputs, glb_bytes, exc, jobCalls, runCalls, reclaimCalls,
                   reclaimCount, responses, rootCalls, rootResponse,
                   rootPending, abandoned>>

\* a decode failure that is swallowed: the job is submitted all the same
DecodeRaiseSwallowed(r) ==
    /\ pc[r] = "decoding"
    /\ upload[r] = "garbage"
    /\ image' = [image EXCEPT ![r] = None]
    /\ pc' = [pc EXCEPT ![r] = "job_wait"]
    /\ UNCHANGED <<cudaAvailable, device, pipeline, filename, upload, base_name,
                   outputs, glb_bytes, exc, jobCalls, runCalls, reclaimCalls,
                   reclaimCount, responses, rootCalls, rootResponse,
                   rootPending, abandoned>>

\* Image.open raises; the exception reaches the except clause (lines 94, 104)
DecodeRaise(r) ==
    /\ pc[r] = "decoding"
    /\ upload[r] = "garbage"
    /\ exc' = [exc EXCEPT ![r] = MsgDecode]
    /\ pc' = [pc EXCEPT ![r] = "except"]
    /\ UNCHANGED <<cudaAvailable, device, pipeline, filename, upload, base_name,
                   image, outputs, glb_bytes, jobCalls, runCalls, reclaimCalls,
                   reclaimCount, responses, rootCalls, rootResponse,
                   rootPending, abandoned>>

\* a job that takes a lock around pipeline.run
StartJobUnderRunLock(r) ==
    /\ pc[r] = "job_wait"
    /\ WorkerFree
    /\ \A q \in Requests : pc[q] # "run"
    /\ jobCalls' = [jobCalls EXCEPT ![r] = @ + 1]
    /\ IF ModelNotLoaded
       THEN /\ exc' = [exc EXCEPT ![r] = MsgNotLoaded]
            /\ pc' = [pc EXCEPT ![r] = "except"]
            /\ UNCHANGED runCalls
       ELSE /\ runCalls' = [runCalls EXCEPT ![r] = @ + 1]
            /\ pc' = [pc EXCEPT ![r] = "run"]
            /\ UNCHANGED exc
    /\ UNCHANGED <<cudaAvailable, device, pipeline, filename, upload, base_name,
                   image, outputs, glb_bytes, reclaimCalls, reclaimCount,
                   responses, rootCalls, rootResponse,
                   rootPending, abandoned>>

\* a job that loads the model again when it finds none
StartJobRetriesLoad(r) ==
    /\ pc[r] = "job_wait"
    /\ WorkerFree
    /\ jobCalls' = [jobCalls EXCEPT ![r] = @ + 1]
    /\ pipeline' = "loaded"
    /\ runCalls' = [runCalls EXCEPT ![r] = @ + 1]
    /\ pc' = [pc EXCEPT ![r] = "run"]
    /\ UNCHANGED <<cudaAvailable, device, filename, upload, base_name, image,
                   outputs, glb_bytes, exc, reclaimCalls, reclaimCount,
                   responses, rootCalls, rootResponse, rootPending, abandoned>>

\* a worker thread enters process_image_to_glb_bytes (lines 51-56): it raises
\* when the model is not loaded, and calls pipeline.run otherwise
StartJob(r) ==
    /\ pc[r] = "job_wait"
    /\ WorkerFree
    /\ jobCalls' = [jobCalls EXCEPT ![r] = @ + 1]
    /\ IF ModelNotLoaded
       THEN /\ exc' = [exc EXCEPT ![r] = MsgNotLoaded]
            /\ pc' = [pc EXCEPT ![r] = "except"]
            /\ UNCHANGED runCalls
       ELSE /\ runCalls' = [runCalls EXCEPT ![r] = @ + 1]
            /\ pc' = [pc EXCEPT ![r] = "run"]
            /\ UNCHANGED exc
    /\ UNCHANGED <<cudaAvailable, device, pipeline, filename, upload, base_name,
                   image, outputs, glb_bytes, reclaimCalls, reclaimCount,
                   responses, rootCalls, rootResponse,
                   rootPending, abandoned>>

\* pipeline.run returns the outputs (lines 56-60)
RunReturn(r) ==
    /\ pc[r] = "run"
    /\ outputs' = [outputs EXCEPT ![r] = TRUE]
    /\ pc' = [pc EXCEPT ![r] = "export"]
    /\ UNCHANGED <<cudaAvailable, device, pipeline, filename, upload, base_name,
                   image, glb_bytes, exc, jobCalls, runCalls, reclaimCalls,
                   reclaimCount, responses, rootCalls, rootResponse,
                   rootPending, abandoned>>

\* pipeline.run raises: the job leaves through the exception (lines 56, 104)
RunRaise(r) ==
    /\ pc[r] = "run"
    /\ exc' = [exc EXCEPT ![r] = MsgRun]
    /\ pc' = [pc EXCEPT ![r] = "except"]
    /\ UNCHANGED <<cudaAvailable, device, pipeline, filename, upload, base_name,
                   image, outputs, glb_bytes, jobCalls, runCalls, reclaimCalls,
                   reclaimCount, responses, rootCalls, rootResponse,
                   rootPending, abandoned>>

\* to_glb and glb.export return (lines 62-71)
ExportReturn(r) ==
    /\ pc[r] = "export"
    /\ glb_bytes' = [glb_bytes EXCEPT ![r] = GlbBytes]
    /\ pc' = [pc EXCEPT ![r] = "cleanup"]
    /\ UNCHANGED <<cudaAvailable, device, pipeline, filename, upload, base_name,
                   image, outputs, exc, jobCalls, runCalls, reclaimCalls,
                   reclaimCount, responses, rootCalls, rootResponse,
                   rootPending, abandoned>>

\* to_glb or glb.export raises (lines 62-71): lines 74-76 are skipped, and the
\* job's frame, with its `outputs`, stays referenced by the traceback of e
ExportRaise(r) ==
    /\ pc[r] = "export"
    /\ exc' = [exc EXCEPT ![r] = MsgExport]
    /\ pc' = [pc EXCEPT ![r] = "except"]
    /\ UNCHANGED <<cudaAvailable, device, pipeline, filename, upload, base_name,
                   image, outputs, glb_bytes, jobCalls, runCalls, reclaimCalls,
                   reclaimCount, responses, rootCalls, rootResponse,
                   rootPending, abandoned>>

\* del outputs; empty_cache when CUDA is available; return (lines 74-78)
Cleanup(r) ==
    /\ pc[r] = "cleanup"
    /\ outputs' = [outputs EXCEPT ![r] = FALSE]
    /\ IF ReclaimEnabled
       THEN /\ reclaimCalls' = [reclaimCalls EXCEPT ![r] = @ + 1]
            /\ reclaimCount' = reclaimCount + 1
       ELSE UNCHANGED <<reclaimCalls, reclaimCount>>
    /\ pc' = [pc EXCEPT ![r] = "returned"]
    /\ UNCHANGED <<cudaAvailable, device, pipeline, filename, upload, base_name,
                   image, glb_bytes, exc, jobCalls, runCalls, responses,
                   rootCalls, rootResponse,
                   rootPending, abandoned>>

\* the coroutine resumes with glb_bytes and returns the Response (lines 97-103)
Respond200(r) ==
    /\ pc[r] = "returned"
    /\ responses' = [responses EXCEPT ![r] = Append(@, OkResponse(r))]
    /\ pc' = [pc EXCEPT ![r] = "done"]
    /\ UNCHANGED <<cudaAvailable, device, pipeline, filename, upload, base_name,
                   image, outputs, glb_bytes, exc, jobCalls, runCalls,
                   reclaimCalls, reclaimCount, rootCalls, rootResponse,
                   rootPending, abandoned>>

\* a handler without the except clause, in a server that dies of the error:
\* the failure ends every other request with it
Respond500ThenExit(r) ==
    /\ pc[r] = "except"
    /\ responses' = [responses EXCEPT ![r] = Append(@, ErrorResponse(r))]
    /\ outputs' = [outputs EXCEPT ![r] = FALSE]
    /\ pc' = [q \in Requests |-> IF q = r THEN "done" ELSE "killed"]
    /\ UNCHANGED <<cudaAvailable, device, pipeline, filename, upload, base_name,
                   image, glb_bytes, exc, jobCalls, runCalls, reclaimCalls,
                   reclaimCount, rootCalls, rootResponse,
                   rootPending, abandoned>>

\* except Exception as e: the JSONResponse is returned, then e and the frames
\* its traceback holds are dropped (lines 104-106)
Respond500(r) ==
    /\ pc[r] = "except"
    /\ responses' = [responses EXCEPT ![r] = Append(@, ErrorResponse(r))]
    /\ outputs' = [outputs EXCEPT ![r] = FALSE]
    /\ pc' = [pc EXCEPT ![r] = "done"]
    /\ UNCHANGED <<cudaAvailable, device, pipeline, filename, upload, base_name,
                   image, glb_bytes, exc, jobCalls, runCalls, reclaimCalls,
                   reclaimCount, rootCalls, rootResponse,
                   rootPending, abandoned>>

\* the client gives up on a request whose job is in the pool: line 97 awaits
\* the job with no cancellation path, so nothing in the service reacts
Abandon(r) ==
    /\ pc[r] \in {"job_wait", "run", "export", "cleanup"}
    /\ ~abandoned[r]
    /\ abandoned' = [abandoned EXCEPT ![r] = TRUE]
    /\ UNCHANGED <<cudaAvailable, device, pipeline, pc, filename, upload,
                   base_name, image, outputs, glb_bytes, exc, jobCalls,
                   runCalls, reclaimCalls, reclaimCount, responses, rootCalls,
                   rootResponse, rootPending>>

Uploads == {"image", "garbage"}

Next ==
    \/ AcceptRoot
    \/ Root
    \/ \E r \in Requests, name \in SampleNames, bytes \in Uploads : Accept(r, name, bytes)
    \/ \E r \in Requests : StartDecode(r)
    \/ \E r \in Requests : DecodeReturn(r)
    \/ \E r \in Requests : DecodeRaise(r)
    \/ \E r \in Requests : StartJob(r)
    \/ \E r \in Requests : RunReturn(r)
    \/ \E r \in Requests : RunRaise(r)
    \/ \E r \in Requests : ExportReturn(r)
    \/ \E r \in Requests : ExportRaise(r)
    \/ \E r \in Requests : Cleanup(r)
    \/ \E r \in Requests : Respond200(r)
    \/ \E r \in Requests : Respond500(r)

Spec == Init /\ [][Next]_vars

\* the steps of request r that the service itself takes
Proceed(r) ==
    \/ StartDecode(r)
    \/ DecodeReturn(r)
    \/ DecodeRaise(r)
    \/ StartJob(r)
    \/ RunReturn(r)
    \/ RunRaise(r)
    \/ ExportReturn(r)
    \/ ExportRaise(r)
    \/ Cleanup(r)
    \/ Respond200(r)
    \/ Respond500(r)

\* POST /convert traffic alone
NextConvert ==
    \/ \E r \in Requests, name \in SampleNames, bytes \in Uploads : Accept(r, name, bytes)
    \/ \E r \in Requests : Proceed(r)

\* Scheduling: the event loop resumes every coroutine whose await has finished,
\* the pool gives a free worker to a waiting call, and every collaborator call
\* (Image.open, pipeline.run, to_glb / export, empty_cache) returns or raises.
\* Clients are under no obligation to send requests.
Fairness == \A r \in Requests : WF_vars(Proceed(r))

SpecFair == Init /\ [][NextConvert]_vars /\ Fairness

\* The service when the pipeline.run call of one request never returns: lines
\* 56-60 and 97 set no timeout, so nothing ends that call
HungRequest == CHOOSE r \in Requests : TRUE

NextHang ==
    \/ \E r \in Requests, name \in SampleNames, bytes \in Uploads : Accept(r, name, bytes)
    \/ \E r \in Requests \ {HungRequest} : Proceed(r)
    \/ StartDecode(HungRequest)
    \/ DecodeReturn(HungRequest)
    \/ DecodeRaise(HungRequest)
    \/ StartJob(HungRequest)
    \/ Respond500(HungRequest)

SpecHang ==
    Init /\ [][NextHang]_vars /\ \A r \in Requests \ {HungRequest} : WF_vars(Proceed(r))

\* The service with clients that may abandon their requests
NextAbandon ==
    \/ Next
    \/ \E r \in Requests : Abandon(r)

SpecAbandon == Init /\ [][NextAbandon]_vars

\* One request at a time, over every file name up to MaxNameLen
NextName ==
    \/ AcceptRoot
    \/ Root
    \/ \E name \in AllNames, bytes \in Uploads : Accept(1, name, bytes)
    \/ StartDecode(1)
    \/ DecodeReturn(1)
    \/ DecodeRaise(1)
    \/ StartJob(1)
    \/ RunReturn(1)
    \/ RunRaise(1)
    \/ ExportReturn(1)
    \/ ExportRaise(1)
    \/ Cleanup(1)
    \/ Respond200(1)
    \/ Respond500(1)

SpecName == Init /\ [][NextName]_vars

\* ----------------------------------------------------------------- claims
InRun == {r \in Requests : pc[r] = "run"}
Done(r) == pc[r] = "done"
TheResponse(r) == responses[r][1]

\* C1: at most one job is inside pipeline.run at any instant: no two jobs'
\* run calls overlap.
C1_MutualExclusion == Cardinality(InRun) <= 1

\* C2: every job that process_image_to_glb_bytes started has issued exactly
\* one cache reclaim by the time its request has ended, whichever way the job
\* ended.
C2_ReclaimOncePerJob ==
    \A r \in Requests : (Done(r) /\ jobCalls[r] = 1) => reclaimCalls[r] = 1

\* C3: when pipeline.run or the export step raised, the job's outputs are
\* released and the cache reclaim has run by the time the failure is in the
\* hands of convert_image, and so before the 500 response.
C3_CleanupBeforeFailureSurfaces ==
    \A r \in Requests :
        (pc[r] \in {"except", "done"} /\ exc[r] \in {MsgRun, MsgExport})
            => (~outputs[r] /\ reclaimCalls[r] = 1)

\* a job that got outputs back from pipeline.run
ObtainedOutputs(q) == runCalls[q] = 1 /\ pc[q] # "run" /\ exc[q] # MsgRun

\* C4: whenever a job enters pipeline.run, every other job that obtained
\* outputs has released them and issued its cache reclaim.
C4_CleanStateOnRunEntry ==
    [][\A r \in Requests :
          (pc[r] # "run" /\ pc'[r] = "run")
              => \A q \in Requests \ {r} :
                    /\ ~outputs[q]
                    /\ ObtainedOutputs(q) => reclaimCalls[q] = 1]_vars

\* C5: with the handle absent, no request ever gets a 200 or reaches
\* pipeline.run, and every finished request has one 500 response with an error
\* payload, which for a decodable upload is the model-not-loaded error.
C5_AbsentHandleAlways500 ==
    pipeline = None =>
        \A r \in Requests :
            /\ runCalls[r] = 0
            /\ \A i \in 1..Len(responses[r]) : responses[r][i].status # 200
            /\ Done(r) =>
                  /\ Len(responses[r]) = 1
                  /\ TheResponse(r).status = 500
                  /\ TheResponse(r).error # None
                  /\ upload[r] = "image" => TheResponse(r).error = MsgNotLoaded

C5_Witness ==
    /\ pipeline = None
    /\ \E r \in Requests : Done(r) /\ upload[r] = "image" /\ jobCalls[r] = 1

\* C6: when decoding the upload fails, neither process_image_to_glb_bytes nor
\* pipeline.run is ever invoked for the request, and the request ends in a 500
\* response carrying the decode error message.
C6_DecodeFailureIs500 ==
    \A r \in Requests :
        upload[r] = "garbage" =>
            /\ jobCalls[r] = 0
            /\ runCalls[r] = 0
            /\ Done(r) =>
                  /\ Len(responses[r]) = 1
                  /\ TheResponse(r).status = 500
                  /\ TheResponse(r).error = MsgDecode

C6_Witness ==
    \E r \in Requests : Done(r) /\ upload[r] = "garbage" /\ exc[r] = MsgDecode

\* C7: a request has at most one response, and exactly one once it has
\* completed: a 200 whose body is the complete artifact of a job that finished
\* every step, or a 500 with an error string and no artifact bytes; a request
\* in which a step raised never has a 200.
C7_OneWellFormedResponse ==
    \A r \in Requests :
        /\ Len(responses[r]) = (IF Done(r) THEN 1 ELSE 0)
        /\ Done(r) =>
              \/ /\ TheResponse(r).status = 200
                 /\ TheResponse(r).content = GlbBytes
                 /\ TheResponse(r).error = None
                 /\ exc[r] = None
                 /\ jobCalls[r] = 1 /\ runCalls[r] = 1
                 /\ glb_bytes[r] = GlbBytes /\ ~outputs[r]
              \/ /\ TheResponse(r).status = 500
                 /\ TheResponse(r).error \in {MsgNotLoaded, MsgDecode, MsgRun, MsgExport}
                 /\ TheResponse(r).content = None
                 /\ exc[r] # None

C7_Witness ==
    /\ \E r \in Requests : Done(r) /\ TheResponse(r).status = 200
    /\ \E r \in Requests : Done(r) /\ exc[r] = MsgExport /\ glb_bytes[r] = None
    /\ \E r \in Requests : Done(r) /\ exc[r] = MsgDecode

\* C8: the download name of a 200 response is a non-empty base followed by
\* ".glb", and it is exactly "output.glb" when the client's file name is empty
\* or sanitization yields the empty string.
C8_DownloadName ==
    \A r \in Requests :
        (Done(r) /\ TheResponse(r).status = 200) =>
            LET name == TheResponse(r).filename
            IN /\ Len(name) > Len(GlbExt)
               /\ SubSeq(name, Len(name) - Len(GlbExt) + 1, Len(name)) = GlbExt
               /\ (filename[r] = <<>> \/ sanitize(filename[r]) = <<>>)
                     => name = OutputName \o GlbExt

\* C9: GET / answers with the running status and a device equal to the
\* backend the handle is bound to, for every startup outcome.
C9_RootReportsBoundDevice ==
    rootCalls > 0 =>
        /\ rootResponse.status = StatusRunning
        /\ rootResponse.device = (IF pipeline = None THEN None ELSE device)

\* C10: a step that handles GET / leaves the handle, the device, every
\* request's phase and data, and the reclaim counts unchanged.
C10_RootNoSideEffects ==
    [][rootCalls' # rootCalls =>
          UNCHANGED <<cudaAvailable, device, pipeline, pc, filename, upload,
                      base_name, image, outputs, glb_bytes, exc, jobCalls,
                      runCalls, reclaimCalls, reclaimCount, responses,
                      abandoned>>]_vars

C10_Witness ==
    /\ rootCalls > 0
    /\ rootResponse.device = device
    /\ \E r \in Requests : pc[r] = "run"
    /\ \E r \in Requests : pc[r] = "export"

\* requests suspended at an await of offloaded work (lines 94 and 97)
Suspended == {r \in Requests : pc[r] \in {"decode_wait", "decoding", "job_wait",
                                          "run", "export", "cleanup"}}

\* C11: whatever number of requests is suspended awaiting offloaded decode or
\* inference work, and also when every worker of the pool is busy, a new POST
\* /convert can be accepted, and so can a GET / while fewer than MaxRootCalls
\* have arrived.
C11_AcceptNeverBlocked ==
    /\ \A r \in Requests :
          pc[r] = "new" =>
              ENABLED (\E name \in SampleNames, bytes \in Uploads : Accept(r, name, bytes))
    /\ rootCalls + rootPending < MaxRootCalls => ENABLED AcceptRoot

C11_Witness ==
    /\ BusyWorkers = PoolSize
    /\ Suspended # {}
    /\ \E r \in Requests : pc[r] = "new"
    /\ rootPending > 0

\* the job of request r has ended, by returning or by raising
JobEnded(r) ==
    /\ jobCalls[r] = 1
    /\ \/ pc[r] = "returned"
       \/ pc[r] \in {"except", "done"} /\ exc[r] # MsgDecode

\* C12: a job whose request was abandoned after submission is never cancelled:
\* it ends only by returning or raising, and when it has ended, having called
\* pipeline.run on the accelerator, its outputs are released and its cache
\* reclaim has been issued.
C12_AbandonedJobStillCleansUp ==
    \A r \in Requests :
        abandoned[r] =>
            /\ pc[r] \in {"job_wait", "run", "export", "cleanup", "returned",
                          "except", "done"}
            /\ Done(r) => JobEnded(r)
            /\ (JobEnded(r) /\ pc[r] = "done" /\ runCalls[r] = 1 /\ cudaAvailable)
                  => (~outputs[r] /\ reclaimCalls[r] = 1)

Accepted(r) == pc[r] # "new"

\* C14: under fair scheduling, with every collaborator call returning or
\* raising, every accepted POST /convert request eventually has its response,
\* also when more requests are in flight than the pool has workers.
C14_EveryRequestAnswered ==
    \A r \in Requests : Accepted(r) ~> (Done(r) /\ Len(responses[r]) = 1)

C14_Witness ==
    /\ \A r \in Requests : Done(r) /\ Len(responses[r]) = 1
    /\ NumRequests > PoolSize
    /\ \E r \in Requests : TheResponse(r).status = 200
    /\ \E r \in Requests : TheResponse(r).status = 500

Failed(q) == Done(q) /\ TheResponse(q).status = 500

\* a request has failed, or the model load failed at startup
FailureSeen == pipeline = None \/ \E q \in Requests : Failed(q)

\* C13: once a request has failed, or when the model load failed at startup,
\* the service keeps serving: a request not yet sent can still be accepted, and
\* under fair scheduling every accepted request gets its response.
C13_FailuresDoNotStopService ==
    \A r \in Requests :
        /\ []((FailureSeen /\ pc[r] = "new")
                 => ENABLED (\E name \in SampleNames, bytes \in Uploads : Accept(r, name, bytes)))
        /\ (FailureSeen /\ Accepted(r)) ~> (Done(r) /\ Len(responses[r]) = 1)

C13_Witness ==
    /\ pipeline # None
    /\ \E q \in Requests : Failed(q) /\ exc[q] = MsgRun
    /\ \E q \in Requests : Failed(q) /\ exc[q] = MsgDecode
    /\ \E r \in Requests : Done(r) /\ TheResponse(r).status = 200

\* C15: decode and export of one request run in parallel with another
\* request's inference: while a job is inside pipeline.run, another request's
\* decode can start on a free worker, and its decode or export in progress can
\* finish.
C15_DecodeExportParallelToRun ==
    \A q \in Requests : \A r \in Requests \ {q} :
        pc[q] = "run" =>
            /\ (pc[r] = "decode_wait" /\ WorkerFree) => ENABLED StartDecode(r)
            /\ pc[r] = "decoding" => ENABLED (DecodeReturn(r) \/ DecodeRaise(r))
            /\ pc[r] = "export" => ENABLED (ExportReturn(r) \/ ExportRaise(r))

C15_Witness ==
    \E q \in Requests : \E r \in Requests \ {q} :
        /\ pc[q] = "run"
        /\ pc[r] = "decoding"
        /\ \E t \in Requests \ {q, r} : pc[t] = "decode_wait"

\* C16: within a request, process_image_to_glb_bytes and pipeline.run are
\* each invoked at most once and only after the request's decode has returned
\* an image, and a response exists only once the request's job has returned
\* its bytes or something has raised.
C16_StepOrder ==
    \A r \in Requests :
        /\ jobCalls[r] <= 1
        /\ runCalls[r] <= jobCalls[r]
        /\ jobCalls[r] = 1 => (upload[r] = "image" /\ image[r] = "image")
        /\ pc[r] \in {"new", "decode_wait", "decoding"} => (image[r] = None /\ jobCalls[r] = 0)
        /\ Len(responses[r]) >= 1 =>
              /\ pc[r] = "done"
              /\ \/ exc[r] # None
                 \/ jobCalls[r] = 1 /\ runCalls[r] = 1 /\ glb_bytes[r] = GlbBytes

C16_Witness ==
    /\ \E r \in Requests : Done(r) /\ runCalls[r] = 1 /\ exc[r] = MsgRun
    /\ \E r \in Requests : pc[r] = "returned" /\ runCalls[r] = 1 /\ responses[r] = <<>>

\* C17: no step of the service changes whether the handle is present or the
\* device it is bound to: they stay as startup left them, so a process whose
\* model load failed never becomes ready.
C17_HandleBoundOnce ==
    [][/\ pipeline' = pipeline
       /\ device' = device
       /\ cudaAvailable' = cudaAvailable]_vars

C17_Witness ==
    /\ pipeline = None
    /\ rootCalls > 0
    /\ \E r \in Requests : Done(r) /\ exc[r] = MsgNotLoaded
    /\ \E r \in Requests : Done(r) /\ exc[r] = MsgDecode

\* C18: a request whose pipeline.run call never returns stays inside the call,
\* on its worker and without a response, for ever; every other accepted
\* request still gets its response on the remaining workers.
C18_HangBlocksOnlyItsWorker ==
    /\ [][pc[HungRequest] = "run" =>
             /\ pc'[HungRequest] = "run"
             /\ responses'[HungRequest] = <<>>
             /\ BusyWorkers' >= 1]_vars
    /\ \A r \in Requests \ {HungRequest} :
          (pc[HungRequest] = "run" /\ Accepted(r)) ~> (Done(r) /\ Len(responses[r]) = 1)

C18_Witness ==
    /\ pc[HungRequest] = "run"
    /\ responses[HungRequest] = <<>>
    /\ \A r \in Requests \ {HungRequest} : Done(r) /\ jobCalls[r] = 1
    /\ \E r \in Requests : Done(r) /\ TheResponse(r).status = 200

\* jobs that got through to_glb and glb.export
Exported == {r \in Requests : glb_bytes[r] = GlbBytes}

\* C19: the cache-reclaim calls issued never outnumber the jobs that completed
\* the export step, none is issued on the CPU fallback, and none is issued by
\* a job that raised.
C19_ReclaimOnlyAfterExportOnCuda ==
    /\ reclaimCount <= Cardinality(Exported)
    /\ ~cudaAvailable => reclaimCount = 0
    /\ \A r \in Requests :
          /\ reclaimCalls[r] <= 1
          /\ reclaimCalls[r] = 1 => (r \in Exported /\ exc[r] = None)
    /\ reclaimCount = Cardinality({r \in Requests : reclaimCalls[r] = 1})

C19_Witness ==
    /\ cudaAvailable
    /\ reclaimCount = 1
    /\ \E r \in Requests : Done(r) /\ exc[r] = MsgExport /\ reclaimCalls[r] = 0
    /\ \E r \in Requests : Done(r) /\ exc[r] = MsgRun /\ reclaimCalls[r] = 0

====
